---- MODULE Spec2Model ----
(***************************************************************************)
(* FigmaExporter (src/index.js, lines 35-296): setAssets resolves the      *)
(* document tree of a design file into a deduplicated list of asset        *)
(* descriptors; createAssets requests export URLs for them in batches and  *)
(* downloads the files under a concurrency limiter.                        *)
(*                                                                         *)
(* A name is a sequence of tokens. The tokens "," and " " are the comma    *)
(* and the whitespace character, "/" is the path separator; every other    *)
(* token is a run of characters holding none of the three.                 *)
(***************************************************************************)
EXTENDS Integers, Sequences, FiniteSets, TLC

VARIABLES
    config,     \* this.config, set by the constructor
    call,       \* createAssets: its arguments and the locals it computes first
    remote,     \* the design file held by the service: document, renderable ids
    assets,     \* this.assets
    pc,         \* where the exporter's one pending call is suspended
    op,         \* the last call made on the exporter
    outcome,    \* the promise that call returned: pending, resolved, rejected
    error,      \* the error that call threw or caught
    emitted,    \* setAssets: the local array `assets`, before deduplication
    warned,     \* console.warn / console.error lines of the last call
    work,       \* createAssets/processAssets: the local array `assets`
    idx,        \* processAssets: the batch loop's i
    requests,   \* id lists of the export-URL requests the last run has issued
    tasks,      \* processAssets: the download tasks given to the limiter
    files,      \* the files on disk: path -> content
    dirs        \* the directories on disk (<<>> is the working directory)

vars == <<config, call, remote, assets, pc, op, outcome, error, emitted, warned,
          work, idx, requests, tasks, files, dirs>>

----------------------------------------------------------------------------
(* Bounds of the model.                                                    *)

\* nodes of a working set (top-level nodes, their children, grandchildren)
MaxSize == 3
\* export-URL requests of one run that are followed
MaxRequests == 4
\* descriptors of a createAssets run
MaxAssets == 3

----------------------------------------------------------------------------
(* Strings.                                                                *)

Comma == ","
Space == " "
Slash == "/"

\* String.prototype.trim: whitespace is removed at both ends only
RECURSIVE TrimStart(_)
TrimStart(s) ==
    IF s # <<>> /\ Head(s) = Space THEN TrimStart(Tail(s)) ELSE s

RECURSIVE TrimEnd(_)
TrimEnd(s) ==
    IF s # <<>> /\ s[Len(s)] = Space THEN TrimEnd(SubSeq(s, 1, Len(s) - 1)) ELSE s

Trim(s) == TrimEnd(TrimStart(s))

\* String.prototype.split(sep): the parts between the separators, empty parts kept
RECURSIVE SplitOn(_, _)
SplitOn(s, sep) ==
    IF \E i \in 1..Len(s) : s[i] = sep
    THEN LET i == CHOOSE k \in 1..Len(s) :
                      s[k] = sep /\ \A j \in 1..(k - 1) : s[j] # sep
         IN  <<SubSeq(s, 1, i - 1)>> \o SplitOn(SubSeq(s, i + 1, Len(s)), sep)
    ELSE <<s>>

\* Array.prototype.join(sep)
RECURSIVE JoinWith(_, _)
JoinWith(parts, sep) ==
    IF parts = <<>> THEN <<>>
    ELSE IF Len(parts) = 1 THEN parts[1]
    ELSE parts[1] \o <<sep>> \o JoinWith(Tail(parts), sep)

\* child.name.split(",").map((prop) => prop.trim()).join("--")
VariantKey(childName) ==
    LET parts == SplitOn(childName, Comma)
    IN  JoinWith([k \in 1..Len(parts) |-> Trim(parts[k])], "--")

\* `${asset.name}/${variants}`
VariantName(parentName, childName) ==
    parentName \o <<Slash>> \o VariantKey(childName)

----------------------------------------------------------------------------
(* Document trees. A node is {id, name, children?}: `present` tells        *)
(* whether the node has a children property at all. An id is the node's    *)
(* position path in the document, so ids are unique within a file.         *)

Leaf(name) == [name |-> name, present |-> FALSE, children |-> <<>>]
Parent(name, kids) == [name |-> name, present |-> TRUE, children |-> kids]

NodeNames == {<<"star">>, <<"gear">>}
ChildNames == {<<"filled=true">>,
               <<"filled=true", Comma, Space, "size=large">>,
               <<Space, "filled=true", Space, Comma, "size=large">>}
DeepName == <<"vector">>

Min(a, b) == IF a < b THEN a ELSE b

\* a variant child, alone or with one grandchild below it
ChildTrees(n) ==
    IF n = 1 THEN {Leaf(c) : c \in ChildNames}
    ELSE {Parent(c, <<Leaf(DeepName)>>) : c \in ChildNames}

RECURSIVE ChildForests(_)
ChildForests(n) ==
    IF n = 0 THEN {<<>>}
    ELSE UNION {{<<t>> \o rest : t \in ChildTrees(k), rest \in ChildForests(n - k)} :
                k \in 1..Min(n, 2)}

\* a top-level node: children absent, children empty, or n - 1 nodes below it
TopTrees(n) ==
    IF n = 1 THEN {Leaf(m) : m \in NodeNames} \cup {Parent(m, <<>>) : m \in NodeNames}
    ELSE {Parent(m, kids) : m \in NodeNames, kids \in ChildForests(n - 1)}

RECURSIVE TopForests(_)
TopForests(n) ==
    IF n = 0 THEN {<<>>}
    ELSE UNION {{<<t>> \o rest : t \in TopTrees(k), rest \in TopForests(n - k)} :
                k \in 1..n}

WorkingSets == UNION {TopForests(n) : n \in 0..MaxSize}

RECURSIVE WithIds(_, _)
WithIds(forest, prefix) ==
    [k \in 1..Len(forest) |->
        [id       |-> prefix \o <<k>>,
         name     |-> forest[k].name,
         present  |-> forest[k].present,
         children |-> WithIds(forest[k].children, prefix \o <<k>>)]]

PageName == <<"assets">>
FrameName == <<"icons">>
NoFrame == <<>>
PageNames == {PageName, <<"Assets">>}
FrameNames == {NoFrame, FrameName, <<"Icons">>}

\* a document: a cover page, then a page named pn that holds the working set
\* ws, directly (fn = NoFrame) or inside a frame named fn
Doc(pn, fn, ws) ==
    [children |-> WithIds(
        <<Leaf(<<"cover">>),
          Parent(pn, IF fn = NoFrame THEN ws ELSE <<Parent(fn, ws)>>)>>,
        <<>>)]

Docs == {Doc(pn, fn, ws) : pn \in PageNames, fn \in FrameNames, ws \in WorkingSets}

----------------------------------------------------------------------------
(* Configuration (the constructor, lines 61-72).                           *)

DefaultBatchSize == 100
DefaultConcurrencyLimit == 5
DefaultFormat == "svg"

\* config.assetsPath, and another directory a call may be pointed at
AssetsPath == <<"out">>
OtherPath == <<"alt">>

BatchSizes == {1, 2, DefaultBatchSize}
Limits == {1, 2, DefaultConcurrencyLimit}

\* configurations of the resolution: the export options keep their defaults
ResolveConfigs ==
    [page : {PageName}, frame : {NoFrame, FrameName}, exportVariants : BOOLEAN,
     batchSize : {DefaultBatchSize}, concurrencyLimit : {DefaultConcurrencyLimit},
     skipExistingFiles : {FALSE}, format : {DefaultFormat},
     assetsPath : {AssetsPath}]

\* configurations of the runs that vary createAssets's arguments
CallConfigs ==
    [page : {PageName}, frame : {NoFrame}, exportVariants : {TRUE},
     batchSize : {DefaultBatchSize}, concurrencyLimit : {1, DefaultConcurrencyLimit},
     skipExistingFiles : BOOLEAN, format : {DefaultFormat},
     assetsPath : {AssetsPath}]

\* configurations of the icon export: the frame "icons", no variants
IconConfigs ==
    [page : {PageName}, frame : {FrameName}, exportVariants : {FALSE},
     batchSize : BatchSizes, concurrencyLimit : Limits,
     skipExistingFiles : BOOLEAN, format : {DefaultFormat},
     assetsPath : {AssetsPath}]

\* configurations with a batchSize of 0, which the constructor accepts
ZeroConfigs ==
    [page : {PageName}, frame : {NoFrame}, exportVariants : {TRUE},
     batchSize : {0, 2}, concurrencyLimit : {1, DefaultConcurrencyLimit},
     skipExistingFiles : {FALSE}, format : {DefaultFormat},
     assetsPath : {AssetsPath}]

\* configurations of the export runs
RunConfigs ==
    [page : {PageName}, frame : {NoFrame}, exportVariants : {TRUE},
     batchSize : BatchSizes, concurrencyLimit : Limits,
     skipExistingFiles : BOOLEAN, format : {DefaultFormat},
     assetsPath : {AssetsPath}]

----------------------------------------------------------------------------
(* setAssets (lines 112-174).                                              *)

\* Array.prototype.find((c) => c.name === name): the first match, 0 for none
FindByName(nodes, name) ==
    IF \E k \in 1..Len(nodes) : nodes[k].name = name
    THEN CHOOSE k \in 1..Len(nodes) :
             nodes[k].name = name /\ \A j \in 1..(k - 1) : nodes[j].name # name
    ELSE 0

\* the flatMap callback: the descriptors of one top-level node
\* mutant of EmitNode: the exportVariants flag is not consulted
EmitNodeAlwaysExpand(node, exportVariants) ==
    IF ~node.present \/ Len(node.children) = 0
    THEN <<[id |-> node.id, name |-> node.name]>>
    ELSE [k \in 1..Len(node.children) |->
             [id   |-> node.children[k].id,
              name |-> VariantName(node.name, node.children[k].name)]]
\* mutant of EmitNode: the parts are not trimmed
EmitNodeUntrimmed(node, exportVariants) ==
    IF ~exportVariants \/ ~node.present \/ Len(node.children) = 0
    THEN <<[id |-> node.id, name |-> node.name]>>
    ELSE [k \in 1..Len(node.children) |->
             [id   |-> node.children[k].id,
              name |-> node.name \o <<Slash>> \o
                       JoinWith(SplitOn(node.children[k].name, Comma), "--")]]
EmitNode(node, exportVariants) ==
    IF ~exportVariants \/ ~node.present \/ Len(node.children) = 0
    THEN <<[id |-> node.id, name |-> node.name]>>
    ELSE [k \in 1..Len(node.children) |->
             [id   |-> node.children[k].id,
              name |-> VariantName(node.name, node.children[k].name)]]

\* mutant of Emit: the descriptors of a later node come first
RECURSIVE EmitReversed(_, _)
EmitReversed(nodes, exportVariants) ==
    IF nodes = <<>> THEN <<>>
    ELSE EmitReversed(Tail(nodes), exportVariants) \o EmitNode(Head(nodes), exportVariants)

\* assetsArray.flatMap(...)
RECURSIVE Emit(_, _)
Emit(nodes, exportVariants) ==
    IF nodes = <<>> THEN <<>>
    ELSE EmitNode(Head(nodes), exportVariants) \o Emit(Tail(nodes), exportVariants)

\* findDuplicates("name", arr): [kept, warned] with the rows kept and the
\* values warned about, `seen` being the values of the rows before row k
RECURSIVE FilterSeen(_, _)
FilterSeen(arr, seen) ==
    IF arr = <<>> THEN [kept |-> <<>>, warned |-> <<>>]
    ELSE LET value == Head(arr).name
             rest  == FilterSeen(Tail(arr), seen \cup {value})
         IN  IF value \in seen
             THEN [kept |-> rest.kept, warned |-> <<value>> \o rest.warned]
             ELSE [kept |-> <<Head(arr)>> \o rest.kept, warned |-> rest.warned]

\* mutant of FilterSeen: the key is the id
RECURSIVE FilterSeenById(_, _)
FilterSeenById(arr, seen) ==
    IF arr = <<>> THEN [kept |-> <<>>, warned |-> <<>>]
    ELSE LET value == Head(arr).id
             rest  == FilterSeenById(Tail(arr), seen \cup {value})
         IN  IF value \in seen
             THEN [kept |-> rest.kept, warned |-> <<value>> \o rest.warned]
             ELSE [kept |-> <<Head(arr)>> \o rest.kept, warned |-> rest.warned]

\* mutants of FindDuplicates: keyed on the id; no filter at all
FindDuplicatesById(arr) == FilterSeenById(arr, {})
FindDuplicatesNone(arr) == [kept |-> arr, warned |-> <<>>]
\* mutant of FindDuplicates: one warning at most, whatever was dropped
FindDuplicatesWarnFirst(arr) ==
    LET r == FilterSeen(arr, {})
    IN  [kept |-> r.kept,
         warned |-> IF r.warned = <<>> THEN <<>> ELSE <<Head(r.warned)>>]
FindDuplicates(arr) == FilterSeen(arr, {})

\* the part of setAssets after the document has arrived: the error thrown
\* ("none" when it returns), the emitted descriptors, the list stored
Thrown(err) == [error |-> err, emitted |-> <<>>, kept |-> <<>>, warned |-> <<>>]

ResolveWorkingSet(nodes, cfg) ==
    LET all == Emit(nodes, cfg.exportVariants)
        res == FindDuplicates(all)
    IN  [error |-> "none", emitted |-> all, kept |-> res.kept, warned |-> res.warned]

\* mutants of Resolve: the configured frame is not looked up; the last page
\* is taken whatever its name
ResolveIgnoringFrame(doc, cfg) ==
    LET p == FindByName(doc.children, cfg.page)
    IN  IF p = 0 THEN Thrown("page")
        ELSE IF ~doc.children[p].present THEN Thrown("type")
        ELSE ResolveWorkingSet(doc.children[p].children, cfg)
ResolveAnyPage(doc, cfg) ==
    LET page == doc.children[Len(doc.children)]
        f    == FindByName(page.children, cfg.frame)
    IN  IF cfg.frame = NoFrame THEN ResolveWorkingSet(page.children, cfg)
        ELSE IF f = 0 THEN Thrown("frame")
        ELSE ResolveWorkingSet(page.children[f].children, cfg)
Resolve(doc, cfg) ==
    LET p == FindByName(doc.children, cfg.page)
    IN  IF p = 0 THEN Thrown("page")
        ELSE LET page == doc.children[p]
                 f    == FindByName(page.children, cfg.frame)
             IN  IF ~page.present THEN Thrown("type")
                 ELSE IF cfg.frame = NoFrame
                      THEN ResolveWorkingSet(page.children, cfg)
                 ELSE IF f = 0 THEN Thrown("frame")
                 ELSE IF ~page.children[f].present THEN Thrown("type")
                 ELSE ResolveWorkingSet(page.children[f].children, cfg)

----------------------------------------------------------------------------
(* Paths.                                                                  *)

\* path.normalize / path.resolve: empty and "." segments are dropped
Normalize(p) ==
    LET segs == SplitOn(p, Slash)
        keep == SelectSeq(segs, LAMBDA g : g # <<>> /\ g # <<".">>)
    IN  JoinWith(keep, Slash)

\* `${asset.name}.${config.format}`
FileName(name, format) == name \o <<".", format>>

\* path.resolve(config.assetsPath, fileName)
\* mutant of FilePath: the extension is the default format
FilePathDefaultFormat(root, name, format) ==
    Normalize(root \o <<Slash>> \o FileName(name, DefaultFormat))
FilePath(root, name, format) == Normalize(root \o <<Slash>> \o FileName(name, format))

\* path.dirname
Dirname(p) ==
    LET segs == SplitOn(p, Slash)
    IN  JoinWith(SubSeq(segs, 1, Len(segs) - 1), Slash)

\* mkdirp.sync(dir): dir and every directory above it
RECURSIVE Mkdirp(_)
Mkdirp(dir) == IF dir = <<>> THEN {<<>>} ELSE {dir} \cup Mkdirp(Dirname(dir))

IsPrefix(p, q) == Len(p) <= Len(q) /\ SubSeq(q, 1, Len(p)) = p

\* path.relative(rootDir, fullPath) of a path below rootDir
Relative(root, full) == SubSeq(full, Len(root) + 2, Len(full))

\* getAllFilesRecursively(dir): the files below dir, relative to it
ExistingFiles(fs, root) ==
    {Relative(root, f) : f \in {g \in DOMAIN fs : IsPrefix(root \o <<Slash>>, g)}}

----------------------------------------------------------------------------
(* The service (figmaGet, lines 82-105, and the signed image URLs).        *)

NoUrl == <<>>
UrlOf(id) == <<0>> \o id
Partial == <<>>
\* the content of a file two streams wrote at once, when it is neither's
Mixed == <<0>>

\* res.images[asset.id]: a URL, or nothing for a node the service cannot render
ImageOf(id) == IF id \in remote.broken THEN NoUrl ELSE UrlOf(id)

----------------------------------------------------------------------------
(* processAssets (lines 176-227).                                          *)

Ids(batch) == [k \in 1..Len(batch) |-> batch[k].id]

\* assets.slice(i, i + config.batchSize)
Batch(arr, i, size) == SubSeq(arr, i + 1, Min(i + size, Len(arr)))

\* batch.forEach((asset) => { asset.url = res.images[asset.id]; }) for the
\* batch at i
\* mutant of Answered: the export format is written next to the URL
AnsweredWithFormat(arr, i, cfg) ==
    [k \in 1..Len(arr) |->
        IF k \in (i + 1)..(i + Len(Batch(arr, i, cfg.batchSize)))
        THEN [id |-> arr[k].id, name |-> arr[k].name,
              assetsPath |-> arr[k].assetsPath,
              url |-> ImageOf(arr[k].id), format |-> cfg.format]
        ELSE arr[k]]
Answered(arr, i, cfg) ==
    [k \in 1..Len(arr) |->
        IF k \in (i + 1)..(i + Len(Batch(arr, i, cfg.batchSize)))
        THEN [arr[k] EXCEPT !.url = ImageOf(arr[k].id)]
        ELSE arr[k]]

\* for (let i = 0; ...; i += config.batchSize)
\* mutant of NextIndex: i++
NextIndexByOne(i, size) == i + 1
NextIndex(i, size) == i + size

\* the task's promise has settled
\* mutant of Settled: the task returns once its write stream is created
SettledOnceWriting(t) == t.state \in {"done", "failed", "rejected", "writing"}
Settled(t) == t.state \in {"done", "failed", "rejected"}
InFlight(t) == t.state \in {"fetching", "writing"}
Active(ts) == Cardinality({k \in 1..Len(ts) : InFlight(ts[k])})
Queued(ts) == {k \in 1..Len(ts) : ts[k].state = "queued"}

\* assets.filter((asset) => asset.url).map((asset) => limit(...)): one queued
\* task per descriptor that has a URL
TaskOf(a, cfg) ==
    [id    |-> a.id,
     name  |-> a.name,
     url   |-> a.url,
     path  |-> FilePath(cfg.assetsPath, a.name, cfg.format),
     state |-> "queued"]

\* mutant of MakeTasks: no filter on the URL
MakeTasksUnfiltered(arr, cfg) == [k \in 1..Len(arr) |-> TaskOf(arr[k], cfg)]
RECURSIVE MakeTasks(_, _)
MakeTasks(arr, cfg) ==
    IF arr = <<>> THEN <<>>
    ELSE IF Head(arr).url = NoUrl THEN MakeTasks(Tail(arr), cfg)
    ELSE <<TaskOf(Head(arr), cfg)>> \o MakeTasks(Tail(arr), cfg)

\* the limiter's test before it starts a queued task
\* mutant of HasSlot: no limit
HasSlotAlways(ts, limit) == TRUE
HasSlot(ts, limit) == Active(ts) < limit

\* mutant of Pump: the task queued last starts first
RECURSIVE PumpLast(_, _, _)
PumpLast(ts, ds, limit) ==
    IF Queued(ts) # {} /\ HasSlot(ts, limit)
    THEN LET k   == CHOOSE q \in Queued(ts) : \A r \in Queued(ts) : q >= r
             dir == Dirname(ts[k].path)
         IN  PumpLast([ts EXCEPT ![k].state = "fetching"],
                      IF dir \in ds THEN ds ELSE ds \cup Mkdirp(dir),
                      limit)
    ELSE [tasks |-> ts, dirs |-> ds]

\* the limiter: the queued tasks start in order while a slot is free; a task
\* that starts runs up to its fetch: if (!fs.existsSync(dir)) mkdirp.sync(dir)
RECURSIVE Pump(_, _, _)
Pump(ts, ds, limit) ==
    IF Queued(ts) # {} /\ HasSlot(ts, limit)
    THEN LET k   == CHOOSE q \in Queued(ts) : \A r \in Queued(ts) : q <= r
             dir == Dirname(ts[k].path)
         IN  Pump([ts EXCEPT ![k].state = "fetching"],
                  IF dir \in ds THEN ds ELSE ds \cup Mkdirp(dir),
                  limit)
    ELSE [tasks |-> ts, dirs |-> ds]

\* await Promise.allSettled(tasks), and createAssets's return after it
\* mutants of Join: settled with the first task (Promise.race); rejected by
\* the first failure (Promise.all over tasks that throw)
JoinFirstSettled(ts) ==
    IF ts = <<>> \/ \E k \in 1..Len(ts) : Settled(ts[k]) THEN "resolved" ELSE "pending"
JoinFailFast(ts) ==
    IF \E k \in 1..Len(ts) : ts[k].state \in {"failed", "rejected"} THEN "rejected"
    ELSE IF \A k \in 1..Len(ts) : Settled(ts[k]) THEN "resolved"
    ELSE "pending"
Join(ts) ==
    IF \A k \in 1..Len(ts) : Settled(ts[k]) THEN "resolved" ELSE "pending"

\* try { await this.processAssets(...) } catch (err) { console.error(...) }
\* return this: what becomes of createAssets's promise when processAssets throws
\* mutant of OnProcessError: the catch rethrows
OnProcessErrorRethrow == "rejected"
OnProcessError == "resolved"

----------------------------------------------------------------------------
(* The arguments of createAssets (lines 236-242).                          *)

\* { ...base, ...over }: the keys of over shadow those of base
Merge(base, over) ==
    [k \in DOMAIN base \cup DOMAIN over |-> IF k \in DOMAIN over THEN over[k] ELSE base[k]]

\* configOverrides = {}
NoOverrides == [k \in {} |-> FALSE]
Overrides ==
    {NoOverrides,
     [format |-> "jpg"],
     [assetsPath |-> OtherPath, batchSize |-> 1]}

\* this.assets.map((asset) => ({ ...asset, assetsPath: config.assetsPath })):
\* new objects; url is the property processAssets sets later
Copies(list, cfg) ==
    [k \in 1..Len(list) |->
        [id |-> list[k].id, name |-> list[k].name,
         assetsPath |-> cfg.assetsPath, url |-> NoUrl]]

\* the transform functions a caller passes: the default (assets) => assets;
\* assets.filter((a) => !a.name.includes("gear")); and
\* (assets) => { assets[0].name = "custom_name"; return assets; }
Transforms == {"identity", "exclude", "override"}
CustomName == <<"custom_name">>

\* transforms that set where a file goes:
\* assets.map((a) => ({ ...a, name: "icon" })) and
\* assets.map((a) => ({ ...a, assetsPath: "alt" }))
PathTransforms == {"same", "redirect"}
SameName == <<"icon">>
Includes(name, token) == \E k \in 1..Len(name) : name[k] = token

\* assets[0] is undefined on an empty array: the assignment throws a TypeError
TransformThrows(tf, arr) == tf = "override" /\ arr = <<>>

\* the objects the transform received, after it ran
Received(tf, arr) ==
    IF tf = "override" /\ arr # <<>> THEN [arr EXCEPT ![1].name = CustomName] ELSE arr

\* assetTransformFn([...assetsIncludingAssetsPath]): the array it returns
\* mutant of ApplyTransform: the returned array is dropped
ApplyTransformIgnored(tf, arr) == arr
ApplyTransform(tf, arr) ==
    IF tf = "exclude" THEN SelectSeq(arr, LAMBDA a : ~Includes(a.name, "gear"))
    ELSE IF tf = "same" THEN [k \in 1..Len(arr) |-> [arr[k] EXCEPT !.name = SameName]]
    ELSE IF tf = "redirect"
         THEN [k \in 1..Len(arr) |-> [arr[k] EXCEPT !.assetsPath = OtherPath]]
    ELSE Received(tf, arr)

\* this.assets after the transform ran on the copies
\* mutant of StoreAfterCall: the transform is handed this.assets itself
StoreAliased(store, received) ==
    [k \in 1..Len(received) |-> [id |-> received[k].id, name |-> received[k].name]]
StoreAfterCall(store, received) == store

\* this.config after const config = { ...this.config, ...configOverrides }
\* mutant of BaseAfterCall: Object.assign(this.config, configOverrides)
BaseAssigned(base, merged) == merged
BaseAfterCall(base, merged) == base

\* assets.filter(...) under skipExistingFiles: the descriptors whose
\* path.normalize(`${asset.name}.${config.format}`) is not an existing file
\* mutants of KeepMissing: the name is looked up without its extension;
\* nothing is dropped
KeepMissingByName(arr, format, existing) ==
    SelectSeq(arr, LAMBDA a : Normalize(a.name) \notin existing)
\* mutant of KeepMissing: the first descriptor is not tested
KeepMissingAfterFirst(arr, format, existing) ==
    IF arr = <<>> THEN <<>>
    ELSE <<Head(arr)>> \o
         SelectSeq(Tail(arr), LAMBDA a : Normalize(FileName(a.name, format)) \notin existing)
KeepAll(arr, format, existing) == arr
KeepMissing(arr, format, existing) ==
    SelectSeq(arr, LAMBDA a : Normalize(FileName(a.name, format)) \notin existing)

\* the state of `call` outside createAssets
IdleCall(cfg) ==
    [transform |-> "identity", overrides |-> NoOverrides, config |-> cfg,
     existing |-> {}, again |-> FALSE]

----------------------------------------------------------------------------
(* Initial states.                                                         *)

RunNames == <<"gear", "bell", "moon", "leaf", "sun">>

\* the k-th node of a run's working set: a component with one variant, then
\* plain nodes
RunNode(k) ==
    IF k = 1
    THEN Parent(<<"star">>, <<Leaf(<<"filled=true", Comma, Space, "size=large">>)>>)
    ELSE Leaf(<<RunNames[k - 1]>>)

RunDocs == {Doc(PageName, NoFrame, [k \in 1..n |-> RunNode(k)]) : n \in 0..MaxAssets}

\* the ids the service may fail to render: none, or one of the document's
\* exportable nodes
BrokenSets(doc, cfg) ==
    LET kept == Resolve(doc, cfg).kept
    IN  {{}} \cup {{kept[k].id} : k \in 1..Len(kept)}

InitLocals ==
    /\ call = IdleCall(config)
    /\ assets = <<>>
    /\ pc = "idle"
    /\ op = "none"
    /\ outcome = "none"
    /\ error = "none"
    /\ emitted = <<>>
    /\ warned = <<>>
    /\ work = <<>>
    /\ idx = 0
    /\ requests = <<>>
    /\ tasks = <<>>
    /\ files = <<>>

Init ==
    /\ config \in RunConfigs
    /\ \E doc \in RunDocs : \E broken \in BrokenSets(doc, config) :
           remote = [document |-> doc, broken |-> broken]
    /\ dirs \in {{<<>>}, {<<>>, AssetsPath}}
    /\ InitLocals

\* a file with a component and a plain node; every node renders
CallDoc == Doc(PageName, NoFrame, <<RunNode(1), RunNode(2)>>)

InitCalls ==
    /\ config \in CallConfigs
    /\ remote = [document |-> CallDoc, broken |-> {}]
    /\ dirs = {<<>>, AssetsPath}
    /\ InitLocals

\* a file whose page "assets" holds the frame "icons" with two icon nodes
IconDoc == Doc(PageName, FrameName, <<Leaf(<<"star">>), Leaf(<<"gear">>)>>)

InitIcons ==
    /\ config \in IconConfigs
    /\ remote = [document |-> IconDoc, broken |-> {}]
    /\ dirs \in {{<<>>}, {<<>>, AssetsPath}}
    /\ InitLocals

\* the file a run starts from, and the files it may be edited into: other
\* working sets, a renamed page, a renamed or removed frame
StartSet == <<RunNode(1), RunNode(2)>>
FreshSets ==
    {<<>>, <<RunNode(1)>>, StartSet, <<RunNode(2), RunNode(1)>>,
     <<Leaf(<<"star">>), Leaf(<<"star">>)>>}
FreshDocs == {Doc(pn, fn, ws) : pn \in PageNames, fn \in FrameNames, ws \in FreshSets}

InitFresh ==
    /\ config \in ResolveConfigs
    /\ remote = [document |-> Doc(PageName, config.frame, StartSet), broken |-> {}]
    /\ dirs = {<<>>, AssetsPath}
    /\ InitLocals

InitZero ==
    /\ config \in ZeroConfigs
    /\ \E doc \in RunDocs : remote = [document |-> doc, broken |-> {}]
    /\ dirs = {<<>>, AssetsPath}
    /\ InitLocals

\* runs of up to three descriptors against a disk that has the root; the
\* service may fail to render one of them
LiveSet == <<RunNode(1), RunNode(2), RunNode(3)>>
LiveDocs ==
    {Doc(PageName, NoFrame, SubSeq(LiveSet, 1, n)) : n \in 0..Len(LiveSet)}
LiveConfigs ==
    [page : {PageName}, frame : {NoFrame}, exportVariants : {TRUE},
     batchSize : {DefaultBatchSize}, concurrencyLimit : Limits,
     skipExistingFiles : {FALSE}, format : {DefaultFormat},
     assetsPath : {AssetsPath}]

InitLive ==
    /\ config \in LiveConfigs
    /\ \E doc \in LiveDocs : \E broken \in BrokenSets(doc, config) :
           remote = [document |-> doc, broken |-> broken]
    /\ dirs = {<<>>, AssetsPath}
    /\ InitLocals

InitResolve ==
    /\ config \in ResolveConfigs
    /\ \E doc \in Docs : remote = [document |-> doc, broken |-> {}]
    /\ dirs = {<<>>, AssetsPath}
    /\ InitLocals

----------------------------------------------------------------------------
(* setAssets.                                                              *)

ResetLocals ==
    /\ error' = "none"
    /\ emitted' = <<>>
    /\ warned' = <<>>
    /\ work' = <<>>
    /\ idx' = 0
    /\ requests' = <<>>
    /\ tasks' = <<>>

\* setAssets is called: figmaGet requests the document
CallSetAssets ==
    /\ pc = "idle"
    /\ pc' = "document"
    /\ op' = "setAssets"
    /\ outcome' = "pending"
    /\ ResetLocals
    /\ call' = IdleCall(config)
    /\ UNCHANGED <<config, remote, assets, files, dirs>>

\* mutant of DocumentResponse: the resolved descriptors are pushed onto
\* this.assets
DocumentResponseAppending ==
    /\ pc = "document"
    /\ LET r == Resolve(remote.document, config)
       IN  /\ error' = r.error
           /\ emitted' = r.emitted
           /\ warned' = [k \in 1..Len(r.warned) |->
                            [kind |-> "duplicate", value |-> r.warned[k]]]
           /\ assets' = IF r.error = "none" THEN assets \o r.kept ELSE assets
           /\ outcome' = IF r.error = "none" THEN "resolved" ELSE "rejected"
    /\ pc' = "idle"
    /\ UNCHANGED <<config, call, remote, op, work, idx, requests, tasks, files, dirs>>

\* mutant of DocumentResponse: this.assets is emptied before the lookups
DocumentResponseClearing ==
    /\ pc = "document"
    /\ LET r == Resolve(remote.document, config)
       IN  /\ error' = r.error
           /\ emitted' = r.emitted
           /\ warned' = [k \in 1..Len(r.warned) |->
                            [kind |-> "duplicate", value |-> r.warned[k]]]
           /\ assets' = r.kept
           /\ outcome' = IF r.error = "none" THEN "resolved" ELSE "rejected"
    /\ pc' = "idle"
    /\ UNCHANGED <<config, call, remote, op, work, idx, requests, tasks, files, dirs>>

\* the document arrives: the rest of setAssets runs
DocumentResponse ==
    /\ pc = "document"
    /\ LET r == Resolve(remote.document, config)
       IN  /\ error' = r.error
           /\ emitted' = r.emitted
           /\ warned' = [k \in 1..Len(r.warned) |->
                            [kind |-> "duplicate", value |-> r.warned[k]]]
           /\ assets' = IF r.error = "none" THEN r.kept ELSE assets
           /\ outcome' = IF r.error = "none" THEN "resolved" ELSE "rejected"
    /\ pc' = "idle"
    /\ UNCHANGED <<config, call, remote, op, work, idx, requests, tasks, files, dirs>>

\* the document request is answered with a non-success status: figmaGet throws
DocumentError ==
    /\ pc = "document"
    /\ error' = "http"
    /\ outcome' = "rejected"
    /\ pc' = "idle"
    /\ UNCHANGED <<config, call, remote, assets, op, emitted, warned, work, idx,
                   requests, tasks, files, dirs>>

\* the file is edited on the service after a resolution: the next document
\* request is answered with another tree
EditDocument ==
    /\ pc = "idle" /\ op = "setAssets" /\ outcome = "resolved"
    /\ \E doc \in FreshDocs :
           /\ doc # remote.document
           /\ remote' = [remote EXCEPT !.document = doc]
    /\ UNCHANGED <<config, call, assets, pc, op, outcome, error, emitted, warned,
                   work, idx, requests, tasks, files, dirs>>

----------------------------------------------------------------------------
(* createAssets (lines 236-295) and processAssets.                         *)

\* the save step: the tasks are handed to the limiter and joined
SaveStep(arr, cfg) ==
    LET p == Pump(MakeTasks(arr, cfg), dirs, cfg.concurrencyLimit)
    IN  /\ tasks' = p.tasks
        /\ dirs' = p.dirs
        /\ outcome' = Join(p.tasks)
        /\ pc' = IF Join(p.tasks) = "pending" THEN "saving" ELSE "idle"

\* createAssets(tf, ov) is called: the configuration is merged, the transform
\* and the skip filter run, then processAssets up to its first export-URL
\* request
CreateAssets(tf, ov) ==
    /\ pc = "idle"
    /\ op' = "createAssets"
    /\ LET cfg      == Merge(config, ov)
           copies   == Copies(assets, cfg)
           result   == ApplyTransform(tf, copies)
           rootless == cfg.skipExistingFiles /\ cfg.assetsPath \notin dirs
           existing == IF cfg.skipExistingFiles
                       THEN ExistingFiles(files, cfg.assetsPath) ELSE {}
           kept     == IF cfg.skipExistingFiles
                       THEN KeepMissing(result, cfg.format, existing) ELSE result
           skipped  == Len(result) - Len(kept)
           again    == /\ op = "createAssets" /\ outcome = "resolved" /\ error = "none"
                       /\ call.transform = tf /\ call.overrides = ov
                       /\ \A k \in 1..Len(tasks) : tasks[k].state = "done"
       IN  /\ config' = BaseAfterCall(config, cfg)
           /\ call' = [transform |-> tf, overrides |-> ov, config |-> cfg,
                       existing |-> IF rootless THEN {} ELSE existing,
                       again |-> again]
           /\ emitted' = <<>>
           /\ idx' = 0
           /\ IF TransformThrows(tf, copies)
              THEN \* the transform throws
                   /\ error' = "type"
                   /\ outcome' = "rejected"
                   /\ pc' = "idle"
                   /\ assets' = assets
                   /\ warned' = <<>>
                   /\ work' = <<>>
                   /\ requests' = <<>>
                   /\ tasks' = <<>>
                   /\ dirs' = dirs
              ELSE IF rootless
              THEN \* readdirSync(config.assetsPath) throws
                   /\ error' = "enoent"
                   /\ outcome' = "rejected"
                   /\ pc' = "idle"
                   /\ assets' = StoreAfterCall(assets, Received(tf, copies))
                   /\ warned' = <<>>
                   /\ work' = result
                   /\ requests' = <<>>
                   /\ tasks' = <<>>
                   /\ dirs' = dirs
              ELSE /\ error' = "none"
                   /\ assets' = StoreAfterCall(assets, Received(tf, copies))
                   /\ warned' = IF skipped > 0
                                THEN <<[kind |-> "skipped", count |-> skipped]>>
                                ELSE <<>>
                   /\ work' = kept
                   /\ IF kept = <<>>
                      THEN /\ requests' = <<>>
                           /\ SaveStep(kept, cfg)
                      ELSE /\ requests' = <<Ids(Batch(kept, 0, cfg.batchSize))>>
                           /\ tasks' = <<>>
                           /\ dirs' = dirs
                           /\ outcome' = "pending"
                           /\ pc' = "images"
    /\ UNCHANGED <<remote, files>>

\* createAssets(): no transform, no overrides
CallCreateAssets == CreateAssets("identity", NoOverrides)

\* createAssets(assetTransformFn, configOverrides)
CallCreateAssetsWith == \E tf \in Transforms : \E ov \in Overrides : CreateAssets(tf, ov)

\* createAssets(assetTransformFn) with a transform that sets where files go
CallCreateAssetsTo == \E tf \in PathTransforms : CreateAssets(tf, NoOverrides)

\* mutant of ImagesResponse: each batch is handed to the limiter as soon as
\* its URLs arrive
ImagesResponseEager ==
    /\ pc = "images"
    /\ LET work2 == Answered(work, idx, call.config)
           i2    == NextIndex(idx, call.config.batchSize)
           p     == Pump(MakeTasks(work2, call.config), dirs,
                         call.config.concurrencyLimit)
       IN  /\ work' = work2
           /\ idx' = i2
           /\ IF i2 < Len(work)
              THEN /\ requests' = Append(requests,
                                           Ids(Batch(work2, i2, call.config.batchSize)))
                   /\ tasks' = p.tasks
                   /\ dirs' = p.dirs
                   /\ UNCHANGED <<outcome, pc>>
              ELSE /\ requests' = requests
                   /\ SaveStep(work2, call.config)
    /\ UNCHANGED <<config, call, remote, assets, op, error, emitted, warned, files>>

\* mutant of ImagesResponse: the next two requests go out together
ImagesResponsePipelined ==
    /\ pc = "images"
    /\ LET work2 == Answered(work, idx, call.config)
           i2    == NextIndex(idx, call.config.batchSize)
       IN  /\ work' = work2
           /\ idx' = i2
           /\ IF i2 < Len(work)
              THEN /\ requests' =
                          requests \o
                          <<Ids(Batch(work2, i2, call.config.batchSize)),
                            Ids(Batch(work2, NextIndex(i2, call.config.batchSize),
                                      call.config.batchSize))>>
                   /\ UNCHANGED <<tasks, dirs, outcome, pc>>
              ELSE /\ requests' = requests
                   /\ SaveStep(work2, call.config)
    /\ UNCHANGED <<config, call, remote, assets, op, error, emitted, warned, files>>

\* an export-URL request is answered: the batch gets its URLs, then the next
\* request goes out or the save step begins
ImagesResponse ==
    /\ pc = "images"
    /\ LET work2 == Answered(work, idx, call.config)
           i2    == NextIndex(idx, call.config.batchSize)
       IN  /\ work' = work2
           /\ idx' = i2
           /\ IF i2 < Len(work)
              THEN /\ requests' = Append(requests,
                                           Ids(Batch(work2, i2, call.config.batchSize)))
                   /\ UNCHANGED <<tasks, dirs, outcome, pc>>
              ELSE /\ requests' = requests
                   /\ SaveStep(work2, call.config)
    /\ UNCHANGED <<config, call, remote, assets, op, error, emitted, warned, files>>

\* mutant of ImagesError: the failure is logged and the descriptors that have
\* a URL are saved all the same
ImagesErrorThenSave ==
    /\ pc = "images"
    /\ error' = "http"
    /\ warned' = Append(warned, [kind |-> "error"])
    /\ SaveStep(work, call.config)
    /\ UNCHANGED <<config, call, remote, assets, op, emitted, work, idx, requests,
                   files>>

\* mutant of ImagesError: the URLs of the earlier batches are taken back
ImagesErrorRollback ==
    /\ pc = "images"
    /\ error' = "http"
    /\ warned' = Append(warned, [kind |-> "error"])
    /\ outcome' = OnProcessError
    /\ pc' = "idle"
    /\ work' = [k \in 1..Len(work) |-> [work[k] EXCEPT !.url = NoUrl]]
    /\ UNCHANGED <<config, call, remote, assets, op, emitted, idx, requests,
                   tasks, files, dirs>>

\* ImagesResponse for as long as the run has made fewer than MaxRequests
\* requests
ImagesResponseCapped ==
    /\ Len(requests) < MaxRequests
    /\ ImagesResponse

\* an export-URL request is answered with a non-success status: figmaGet
\* throws, createAssets catches and logs
ImagesError ==
    /\ pc = "images"
    /\ error' = "http"
    /\ warned' = Append(warned, [kind |-> "error"])
    /\ outcome' = OnProcessError
    /\ pc' = "idle"
    /\ UNCHANGED <<config, call, remote, assets, op, emitted, work, idx, requests,
                   tasks, files, dirs>>

\* mutant of Settle: the limiter does not start the next task
SettleWithoutStart(ts) ==
    /\ tasks' = ts
    /\ dirs' = dirs
    /\ IF pc = "saving"
       THEN /\ outcome' = Join(ts)
            /\ pc' = IF Join(ts) = "pending" THEN "saving" ELSE "idle"
       ELSE UNCHANGED <<outcome, pc>>

\* a task has settled: the limiter starts the next one, the join looks again
Settle(ts) ==
    LET p == Pump(ts, dirs, call.config.concurrencyLimit)
    IN  /\ tasks' = p.tasks
        /\ dirs' = p.dirs
        /\ IF pc = "saving"
           THEN /\ outcome' = Join(p.tasks)
                /\ pc' = IF Join(p.tasks) = "pending" THEN "saving" ELSE "idle"
           ELSE UNCHANGED <<outcome, pc>>

\* a download is answered with a success status and its body: the write
\* stream is created
FetchOk(k) ==
    /\ tasks[k].state = "fetching"
    /\ tasks' = [tasks EXCEPT ![k].state = "writing"]
    /\ UNCHANGED <<config, call, remote, assets, pc, op, outcome, error, emitted, warned,
                   work, idx, requests, files, dirs>>

\* mutant of FetchFail: the write stream was created before the request
FetchFailTruncates(k) ==
    /\ tasks[k].state = "fetching"
    /\ warned' = Append(warned, [kind |-> "download", value |-> tasks[k].path])
    /\ files' = [q \in DOMAIN files \cup {tasks[k].path} |->
                    IF q = tasks[k].path THEN Partial ELSE files[q]]
    /\ Settle([tasks EXCEPT ![k].state = "failed"])
    /\ UNCHANGED <<config, call, remote, assets, op, error, emitted, work, idx,
                   requests>>

\* a download is answered with a non-success status: a warning, the task returns
FetchFail(k) ==
    /\ tasks[k].state = "fetching"
    /\ warned' = Append(warned, [kind |-> "download", value |-> tasks[k].path])
    /\ Settle([tasks EXCEPT ![k].state = "failed"])
    /\ UNCHANGED <<config, call, remote, assets, op, error, emitted, work, idx,
                   requests, files>>

\* what a finished stream leaves in its file: the downloaded bytes, unless a
\* second stream of the run is writing the same file
Written(ts, k) ==
    IF \E j \in 1..Len(ts) :
           j # k /\ ts[j].path = ts[k].path /\ ts[j].state = "writing"
    THEN {ts[k].url, Mixed}
    ELSE {ts[k].url}

\* the write stream emits finish: the file holds the downloaded bytes
WriteFinish(k) ==
    /\ tasks[k].state = "writing"
    /\ \E bytes \in Written(tasks, k) :
           files' = [q \in DOMAIN files \cup {tasks[k].path} |->
                        IF q = tasks[k].path THEN bytes ELSE files[q]]
    /\ Settle([tasks EXCEPT ![k].state = "done"])
    /\ UNCHANGED <<config, call, remote, assets, op, error, emitted, warned, work, idx,
                   requests>>

\* the write stream emits error: the task rejects; the file was not opened
\* (untouched) or is left truncated
WriteError(k) ==
    /\ tasks[k].state = "writing"
    /\ \E opened \in BOOLEAN :
           files' = IF opened
                    THEN [q \in DOMAIN files \cup {tasks[k].path} |->
                             IF q = tasks[k].path THEN Partial ELSE files[q]]
                    ELSE files
    /\ Settle([tasks EXCEPT ![k].state = "rejected"])
    /\ UNCHANGED <<config, call, remote, assets, op, error, emitted, warned, work, idx,
                   requests>>

----------------------------------------------------------------------------
(* The earlier interface (src/unnamed/part_000): the caller holds the      *)
(* asset array, exportAssets writes image and format onto its objects, and *)
(* saveAsset downloads one of them. `work` is that array, `tasks` holds    *)
(* the one saveAsset call in progress.                                     *)

\* the format property of an asset exportAssets has not been given
Undefined == "undefined"

\* the array the caller passes to exportAssets
SaveAssets ==
    <<[id |-> <<2, 1>>, name |-> <<"star">>, image |-> NoUrl, format |-> Undefined],
      [id |-> <<2, 2>>, name |-> <<"gear">>, image |-> NoUrl, format |-> Undefined]>>

\* exportAssets(assets, format = 'svg', scale = 1, batchSize = 100): the
\* caller exports in a format other than the configured one
ExportFormats == {"jpg"}
ExportBatchSizes == {1, DefaultBatchSize}

\* saveAsset(asset, overrideConfig = {})
SaveOverrides ==
    {NoOverrides,
     [name |-> CustomName],
     [name |-> <<>>],
     [format |-> "png"]}

SaveConfig ==
    [page |-> PageName, frame |-> NoFrame, exportVariants |-> TRUE,
     format |-> DefaultFormat, assetsPath |-> AssetsPath]

InitSave ==
    /\ config = SaveConfig
    /\ call = [format |-> DefaultFormat, batchSize |-> DefaultBatchSize]
    /\ remote = [document |-> CallDoc, broken |-> {}]
    /\ assets = <<>>
    /\ pc = "idle"
    /\ op = "none"
    /\ outcome = "none"
    /\ error = "none"
    /\ emitted = <<>>
    /\ warned = <<>>
    /\ work = SaveAssets
    /\ idx = 0
    /\ requests = <<>>
    /\ tasks = <<>>
    /\ files = <<>>
    /\ dirs \in {{<<>>}, {<<>>, AssetsPath}}

\* exportAssets is called: the batches are cut and the first request goes out
ExportAssets(format, size) ==
    /\ pc = "idle"
    /\ op' = "exportAssets"
    /\ call' = [format |-> format, batchSize |-> size]
    /\ error' = "none"
    /\ idx' = 0
    /\ tasks' = <<>>
    /\ requests' = <<Ids(Batch(work, 0, size))>>
    /\ outcome' = "pending"
    /\ pc' = "export"
    /\ UNCHANGED <<config, remote, assets, emitted, warned, work, files, dirs>>

\* a batch's response arrives: asset.image and asset.format are set on its
\* assets, then the next batch is requested or the array is returned
ExportResponse ==
    /\ pc = "export"
    /\ LET n     == Len(Batch(work, idx, call.batchSize))
           work2 == [k \in 1..Len(work) |->
                        IF k \in (idx + 1)..(idx + n)
                        THEN [work[k] EXCEPT !.image = ImageOf(work[k].id),
                                             !.format = call.format]
                        ELSE work[k]]
           i2    == idx + call.batchSize
       IN  /\ work' = work2
           /\ idx' = i2
           /\ IF i2 < Len(work)
              THEN /\ requests' = Append(requests, Ids(Batch(work2, i2, call.batchSize)))
                   /\ UNCHANGED <<outcome, pc>>
              ELSE /\ requests' = requests
                   /\ outcome' = "resolved"
                   /\ pc' = "idle"
    /\ UNCHANGED <<config, call, remote, assets, op, error, emitted, warned, tasks,
                   files, dirs>>

\* a batch's request is answered with a non-success status: figmaGet throws
\* and exportAssets rejects
ExportError ==
    /\ pc = "export"
    /\ error' = "http"
    /\ outcome' = "rejected"
    /\ pc' = "idle"
    /\ UNCHANGED <<config, call, remote, assets, op, emitted, warned, work, idx,
                   requests, tasks, files, dirs>>

\* const finalName = overrideConfig.name || asset.name
\* mutant of FinalName: the override is not read
FinalNameOfAsset(asset, ov) == asset.name
FinalName(asset, ov) ==
    IF "name" \in DOMAIN ov /\ ov.name # <<>> THEN ov.name ELSE asset.name

\* path.resolve(finalConfig.assetsPath, `${finalName}.${asset.format}`)
ImagePath(asset, ov, cfg) ==
    FilePath(Merge(cfg, ov).assetsPath, FinalName(asset, ov), asset.format)

\* saveAsset is called with an exported asset: the directory is made and the
\* image is requested
SaveAsset(k, ov) ==
    /\ pc = "idle"
    /\ work[k].image # NoUrl
    /\ op' = "saveAsset"
    /\ call' = [asset |-> k, overrides |-> ov, config |-> Merge(config, ov)]
    /\ LET imagePath == ImagePath(work[k], ov, config)
           directory == Dirname(imagePath)
       IN  /\ dirs' = IF directory \in dirs THEN dirs ELSE dirs \cup Mkdirp(directory)
           /\ tasks' = <<[id    |-> work[k].id,
                          name  |-> FinalName(work[k], ov),
                          url   |-> work[k].image,
                          path  |-> imagePath,
                          state |-> "fetching"]>>
    /\ error' = "none"
    /\ outcome' = "pending"
    /\ pc' = "save"
    /\ UNCHANGED <<config, remote, assets, emitted, warned, work, idx, requests, files>>

\* the image arrives with a success status: the write stream is created
SaveFetchOk ==
    /\ pc = "save"
    /\ tasks[1].state = "fetching"
    /\ tasks' = [tasks EXCEPT ![1].state = "writing"]
    /\ UNCHANGED <<config, call, remote, assets, pc, op, outcome, error, emitted,
                   warned, work, idx, requests, files, dirs>>

\* the image request is answered with a non-success status: saveAsset throws
SaveFetchFail ==
    /\ pc = "save"
    /\ tasks[1].state = "fetching"
    /\ tasks' = [tasks EXCEPT ![1].state = "failed"]
    /\ error' = "http"
    /\ outcome' = "rejected"
    /\ pc' = "idle"
    /\ UNCHANGED <<config, call, remote, assets, op, emitted, warned, work, idx,
                   requests, files, dirs>>

\* writer emits finish: the promise resolves
SaveFinish ==
    /\ pc = "save"
    /\ tasks[1].state = "writing"
    /\ files' = [q \in DOMAIN files \cup {tasks[1].path} |->
                    IF q = tasks[1].path THEN tasks[1].url ELSE files[q]]
    /\ tasks' = [tasks EXCEPT ![1].state = "done"]
    /\ outcome' = "resolved"
    /\ pc' = "idle"
    /\ UNCHANGED <<config, call, remote, assets, op, error, emitted, warned, work,
                   idx, requests, dirs>>

\* writer emits error: the promise rejects; the file was not opened or is
\* left truncated
SaveError ==
    /\ pc = "save"
    /\ tasks[1].state = "writing"
    /\ \E opened \in BOOLEAN :
           files' = IF opened
                    THEN [q \in DOMAIN files \cup {tasks[1].path} |->
                             IF q = tasks[1].path THEN Partial ELSE files[q]]
                    ELSE files
    /\ tasks' = [tasks EXCEPT ![1].state = "rejected"]
    /\ error' = "stream"
    /\ outcome' = "rejected"
    /\ pc' = "idle"
    /\ UNCHANGED <<config, call, remote, assets, op, emitted, warned, work, idx,
                   requests, dirs>>

----------------------------------------------------------------------------
(* Specifications.                                                         *)

Next ==
    \/ CallSetAssets
    \/ DocumentResponse
    \/ DocumentError
    \/ CallCreateAssets
    \/ ImagesResponse
    \/ ImagesError
    \/ \E k \in 1..Len(tasks) : FetchOk(k)
    \/ \E k \in 1..Len(tasks) : FetchFail(k)
    \/ \E k \in 1..Len(tasks) : WriteFinish(k)
    \/ \E k \in 1..Len(tasks) : WriteError(k)

Spec == Init /\ [][Next]_vars

\* the resolution alone, over every document of the bound
NextResolve ==
    \/ CallSetAssets
    \/ DocumentResponse
    \/ DocumentError

SpecResolve == InitResolve /\ [][NextResolve]_vars

\* createAssets with every transform and every set of overrides, against a
\* service and a disk that do not fail
NextCalls ==
    \/ CallSetAssets
    \/ DocumentResponse
    \/ CallCreateAssetsWith
    \/ ImagesResponse
    \/ \E k \in 1..Len(tasks) : FetchOk(k)
    \/ \E k \in 1..Len(tasks) : WriteFinish(k)

SpecCalls == InitCalls /\ [][NextCalls]_vars

\* createAssets with the transforms that set where files go
NextPaths ==
    \/ CallSetAssets
    \/ DocumentResponse
    \/ DocumentError
    \/ CallCreateAssetsTo
    \/ ImagesResponse
    \/ ImagesError
    \/ \E k \in 1..Len(tasks) : FetchOk(k)
    \/ \E k \in 1..Len(tasks) : FetchFail(k)
    \/ \E k \in 1..Len(tasks) : WriteFinish(k)
    \/ \E k \in 1..Len(tasks) : WriteError(k)

SpecPaths == InitCalls /\ [][NextPaths]_vars

\* the earlier interface: exportAssets, then saveAsset asset by asset
NextSave ==
    \/ \E format \in ExportFormats : \E size \in ExportBatchSizes :
           ExportAssets(format, size)
    \/ ExportResponse
    \/ ExportError
    \/ \E k \in 1..Len(work) : \E ov \in SaveOverrides : SaveAsset(k, ov)
    \/ SaveFetchOk
    \/ SaveFetchFail
    \/ SaveFinish
    \/ SaveError

SpecSave == InitSave /\ [][NextSave]_vars

\* setAssets called again and again on a file that changes between the calls
NextFresh ==
    \/ CallSetAssets
    \/ DocumentResponse
    \/ DocumentError
    \/ EditDocument

SpecFresh == InitFresh /\ [][NextFresh]_vars

\* export runs whose batchSize may be 0; a run is followed up to
\* MaxRequests export-URL requests
NextZero ==
    \/ CallSetAssets
    \/ DocumentResponse
    \/ DocumentError
    \/ CallCreateAssets
    \/ ImagesResponseCapped
    \/ ImagesError
    \/ \E k \in 1..Len(tasks) : FetchOk(k)
    \/ \E k \in 1..Len(tasks) : FetchFail(k)
    \/ \E k \in 1..Len(tasks) : WriteFinish(k)
    \/ \E k \in 1..Len(tasks) : WriteError(k)

SpecZero == InitZero /\ [][NextZero]_vars

\* the download of task k is answered; the write stream of task k ends
FetchAnswers(k) == k \in 1..Len(tasks) /\ (FetchOk(k) \/ FetchFail(k))
StreamEnds(k) == k \in 1..Len(tasks) /\ (WriteFinish(k) \/ WriteError(k))

\* export runs in which every download is answered in the end and every
\* write stream ends in the end
SpecLive ==
    /\ InitLive
    /\ [][Next]_vars
    /\ \A k \in 1..Len(LiveSet) : WF_vars(FetchAnswers(k)) /\ WF_vars(StreamEnds(k))

\* the icon export
SpecIcons == InitIcons /\ [][Next]_vars

----------------------------------------------------------------------------
(* Properties of setAssets.                                                *)

SetAssetsResolved == op = "setAssets" /\ pc = "idle" /\ outcome = "resolved"

\* the page and the working set the configuration names, read off the
\* document (no document of the model has two pages or two frames of one name)
PagesNamed == {k \in 1..Len(remote.document.children) :
                  remote.document.children[k].name = config.page}
ThePage == remote.document.children[CHOOSE k \in PagesNamed : TRUE]
FramesNamed == {k \in 1..Len(ThePage.children) :
                   ThePage.children[k].name = config.frame}
WorkingSet ==
    IF config.frame = NoFrame THEN ThePage.children
    ELSE ThePage.children[CHOOSE k \in FramesNamed : TRUE].children

\* the descriptors emitted for a node or for anything below it
EmittedUnder(node) == SelectSeq(emitted, LAMBDA d : IsPrefix(node.id, d.id))

\* C1: the resolved asset list never holds two descriptors of one name
C1_NoTwoDescriptorsShareName ==
    \A i, j \in 1..Len(assets) : i # j => assets[i].name # assets[j].name

\* a resolution whose emitted descriptors held a repeated name
C1_Witness == SetAssetsResolved /\ Len(emitted) > Len(assets) /\ Len(assets) >= 1

\* the positions of the emitted sequence that hold the first descriptor of a name
FirstOfName == {i \in 1..Len(emitted) :
                   \A j \in 1..(i - 1) : emitted[j].name # emitted[i].name}

\* C2: the resolved list is the emitted sequence restricted to the first
\* descriptor of every name, in the emitted order
C2_FirstOccurrenceKeptInOrder ==
    SetAssetsResolved =>
        /\ Len(assets) = Cardinality(FirstOfName)
        /\ \A i \in FirstOfName :
               assets[Cardinality({j \in FirstOfName : j <= i})] = emitted[i]

\* a repeated name (under two ids) is followed by another name
C2_Witness ==
    /\ SetAssetsResolved
    /\ \E i, j, k \in 1..Len(emitted) :
           /\ i < j /\ j < k
           /\ emitted[i].name = emitted[j].name
           /\ emitted[i].id # emitted[j].id
           /\ emitted[k].name # emitted[i].name

\* the variant key of a child name, position by position: a comma becomes
\* "--", a space stays only with a non-space token on either side of it
\* inside its comma-separated part, every other token stays
InnerSpace(s, p) ==
    /\ \E q \in 1..(p - 1) :
           s[q] # Space /\ \A r \in q..p : s[r] # Comma
    /\ \E q \in (p + 1)..Len(s) :
           s[q] # Space /\ \A r \in p..q : s[r] # Comma

RECURSIVE KeyFrom(_, _)
KeyFrom(s, p) ==
    IF p > Len(s) THEN <<>>
    ELSE (IF s[p] = Comma THEN <<"--">>
          ELSE IF s[p] = Space /\ ~InnerSpace(s, p) THEN <<>>
          ELSE <<s[p]>>) \o KeyFrom(s, p + 1)

ExpectedKey(s) == KeyFrom(s, 1)

\* C3: with exportVariants, a top-level node with children yields one
\* descriptor per direct child, named <parent>/<variant key>, in child order,
\* and none for itself or for a deeper node
C3_VariantExpansion ==
    (SetAssetsResolved /\ config.exportVariants) =>
        \A k \in 1..Len(WorkingSet) :
            LET node == WorkingSet[k]
            IN  Len(node.children) >= 1 =>
                    EmittedUnder(node) =
                        [c \in 1..Len(node.children) |->
                            [id   |-> node.children[c].id,
                             name |-> node.name \o <<Slash>> \o
                                      ExpectedKey(node.children[c].name)]]

\* "filled=true, size=large" under "star", the child having a node below it
C3_Witness ==
    /\ SetAssetsResolved /\ config.exportVariants
    /\ \E k \in 1..Len(WorkingSet) :
           /\ WorkingSet[k].name = <<"star">>
           /\ \E c \in 1..Len(WorkingSet[k].children) :
                  /\ WorkingSet[k].children[c].name =
                         <<"filled=true", Comma, Space, "size=large">>
                  /\ Len(WorkingSet[k].children[c].children) = 1
                  /\ \E i \in 1..Len(emitted) :
                         /\ emitted[i].id = WorkingSet[k].children[c].id
                         /\ emitted[i].name =
                                <<"star", "/", "filled=true", "--", "size=large">>

\* C4: without exportVariants, or for a top-level node without children
\* (absent or empty), exactly one descriptor: the node's id and name
C4_OneDescriptorPerPlainNode ==
    SetAssetsResolved =>
        \A k \in 1..Len(WorkingSet) :
            LET node == WorkingSet[k]
            IN  (~config.exportVariants \/ ~node.present \/ Len(node.children) = 0) =>
                    EmittedUnder(node) = <<[id |-> node.id, name |-> node.name]>>

\* exportVariants off: a node with children beside a node with an empty list
C4_Witness ==
    /\ SetAssetsResolved /\ ~config.exportVariants
    /\ \E k, m \in 1..Len(WorkingSet) :
           /\ Len(WorkingSet[k].children) >= 1
           /\ WorkingSet[m].present /\ Len(WorkingSet[m].children) = 0

SetAssetsAnswered == op = "setAssets" /\ pc = "idle" /\ error # "http"

\* C5: setAssets fails when no page has the configured name, fails when a
\* frame is configured and the page has no child of that name, and without a
\* frame resolves over the page's direct children
C5_PageAndFrameLookup ==
    SetAssetsAnswered =>
        /\ PagesNamed = {} => (outcome = "rejected" /\ error = "page")
        /\ (PagesNamed # {} /\ config.frame # NoFrame /\ FramesNamed = {}) =>
               (outcome = "rejected" /\ error = "frame")
        /\ (PagesNamed # {} /\ config.frame = NoFrame) =>
               /\ outcome = "resolved"
               /\ \A k \in 1..Len(ThePage.children) :
                      EmittedUnder(ThePage.children[k]) # <<>>
               /\ \A i \in 1..Len(emitted) :
                      \E k \in 1..Len(ThePage.children) :
                          IsPrefix(ThePage.children[k].id, emitted[i].id)

\* the page is there, the frame is configured, the page holds "Icons" only
C5_Witness ==
    /\ SetAssetsAnswered
    /\ PagesNamed # {} /\ config.frame = FrameName /\ FramesNamed = {}
    /\ \E k \in 1..Len(ThePage.children) : ThePage.children[k].name = <<"Icons">>
    /\ outcome = "rejected"

----------------------------------------------------------------------------
(* Properties of createAssets.                                             *)

Failures(ts) == {k \in 1..Len(ts) : ts[k].state = "failed"}

\* C6: never more download tasks in flight than concurrencyLimit
C6_InFlightAtMostLimit ==
    Active(tasks) <= call.config.concurrencyLimit

\* the limit binds: it is reached while a task waits in the queue
C6_Witness ==
    /\ pc = "saving"
    /\ Active(tasks) = call.config.concurrencyLimit
    /\ Queued(tasks) # {}

\* C7: after a download has failed on its status the run is not rejected, no
\* waiting task is left without a running one to free its slot, and the run
\* resolves with every task settled
C7_FailureDoesNotAbortRun ==
    (op = "createAssets" /\ Failures(tasks) # {}) =>
        /\ outcome # "rejected"
        /\ pc = "saving" => Active(tasks) >= 1
        /\ pc = "idle" =>
               (outcome = "resolved" /\ \A k \in 1..Len(tasks) : Settled(tasks[k]))

\* one slot: the first download failed, then the two behind it were started
\* and wrote their files, and the run resolved
C7_Witness ==
    /\ op = "createAssets" /\ outcome = "resolved"
    /\ call.config.concurrencyLimit = 1
    /\ Len(tasks) >= 3
    /\ tasks[1].state = "failed"
    /\ \A k \in 2..Len(tasks) : tasks[k].state = "done" /\ tasks[k].path \in DOMAIN files

\* C8: the run's promise is resolved only with every download task settled,
\* and is pending no longer than that
C8_ResolvesOnlyWhenAllSettled ==
    op = "createAssets" =>
        /\ outcome = "resolved" => \A k \in 1..Len(tasks) : Settled(tasks[k])
        /\ (pc = "saving" /\ \A k \in 1..Len(tasks) : Settled(tasks[k])) =>
               outcome = "resolved"
        /\ pc = "saving" => outcome = "pending"

\* a run resolved after one task succeeded and one failed while writing
C8_Witness ==
    /\ op = "createAssets" /\ outcome = "resolved"
    /\ \E j, k \in 1..Len(tasks) :
           tasks[j].state = "done" /\ tasks[k].state = "rejected"

CeilDiv(n, b) == (n + b - 1) \div b

\* C9: request k carries the ids of descriptors (k-1)*b+1 .. min(k*b, n), and
\* a completed export step has issued ceil(n/b) requests
C9_ContiguousBatches ==
    op = "createAssets" =>
        LET n == Len(work)
            b == call.config.batchSize
        IN  /\ Len(requests) <= CeilDiv(n, b)
            /\ \A k \in 1..Len(requests) :
                   requests[k] = [c \in 1..(Min(k * b, n) - (k - 1) * b) |->
                                     work[(k - 1) * b + c].id]
            /\ (pc # "images" /\ error = "none") => Len(requests) = CeilDiv(n, b)

\* three descriptors in batches of two: a full chunk, then the remaining one
C9_Witness ==
    /\ op = "createAssets" /\ pc # "images" /\ error = "none"
    /\ Len(work) = 3 /\ call.config.batchSize = 2
    /\ Len(requests) = 2
    /\ Len(requests[1]) = 2 /\ Len(requests[2]) = 1

ExportFailed == op = "createAssets" /\ error = "http"

\* C10 as claimed: a failed export-URL request makes createAssets's promise reject
C10_ExportFailureRejects ==
    ExportFailed => outcome = "rejected"

\* C10 as amended: createAssets catches the failure of an export-URL request,
\* logs it, and its promise resolves
C10_ExportFailureIsLoggedAndResolves ==
    ExportFailed =>
        /\ outcome = "resolved"
        /\ pc = "idle"
        /\ warned # <<>> /\ warned[Len(warned)].kind = "error"

\* the second export-URL request of a run failed
C10_Witness ==
    ExportFailed /\ Len(requests) = 2

----------------------------------------------------------------------------
(* Properties of a createAssets run: failures, the skip filter.            *)

\* C11: in a createAssets run in which an export-URL request fails, no
\* download task is started and no file or directory is created or modified,
\* from the call to the failure, whatever URLs earlier batches were given
C11_ExportFailureStartsNoDownload ==
    [][(op' = "createAssets" /\ (pc' = "images" \/ error' = "http")) =>
          (tasks' = <<>> /\ files' = files /\ dirs' = dirs)]_vars

\* the second batch failed after the first had been given its URLs
C11_Witness ==
    /\ ExportFailed /\ Len(requests) = 2
    /\ \E k \in 1..Len(work) : work[k].url # NoUrl
    /\ tasks = <<>>

\* C12: a run has download tasks only once the batch loop is over: every
\* export-URL request of the run has been issued and answered
C12_NoDownloadBeforeLastExportResponse ==
    (op = "createAssets" /\ tasks # <<>>) =>
        /\ pc # "images"
        /\ idx >= Len(work)
        /\ Len(requests) = CeilDiv(Len(work), call.config.batchSize)
        /\ \A k \in 1..Len(work) : \E r \in 1..Len(requests) :
               \E c \in 1..Len(requests[r]) : requests[r][c] = work[k].id

\* downloads in flight after three export-URL requests
C12_Witness ==
    /\ op = "createAssets" /\ pc = "saving"
    /\ Len(requests) = 3
    /\ \E k \in 1..Len(tasks) : tasks[k].state = "fetching"

PathOf(a, cfg) == cfg.assetsPath \o <<Slash>> \o a.name \o <<".", cfg.format>>
TaskIds(ts) == {ts[k].id : k \in 1..Len(ts)}
WorkIds(arr) == {arr[k].id : k \in 1..Len(arr)}

\* C13: in a run with skipExistingFiles whose destination root exists, (1) no
\* file that exists is modified, (2) the call drops exactly the descriptors
\* whose <name>.<format> exists under the root when it is made, (3) once the
\* export-URL requests have succeeded every kept descriptor that has a URL
\* has a download task, and (4) a task that completes leaves the downloaded
\* bytes at its path
C13_SkipDropsExactlyExistingFiles ==
    [][(op' = "createAssets" /\ call'.config.skipExistingFiles /\ error' # "enoent") =>
          /\ \A q \in DOMAIN files : q \in DOMAIN files' /\ files'[q] = files[q]
          /\ pc = "idle" =>
                 \A k \in 1..Len(assets) :
                     (PathOf(assets[k], call'.config) \in DOMAIN files)
                         <=> (assets[k].id \notin WorkIds(work'))
          /\ (pc' # "images" /\ error' = "none") =>
                 \A k \in 1..Len(work') :
                     work'[k].url # NoUrl => work'[k].id \in TaskIds(tasks')
          /\ \A k \in 1..Len(tasks') :
                 tasks'[k].state = "done" =>
                     /\ tasks'[k].path \in DOMAIN files'
                     /\ files'[tasks'[k].path] = tasks'[k].url]_vars

\* one descriptor was skipped, keeping a truncated file, and another was
\* downloaded in the same run
C13_Witness ==
    /\ op = "createAssets" /\ call.config.skipExistingFiles /\ outcome = "resolved"
    /\ warned # <<>> /\ warned[1].kind = "skipped"
    /\ \E q \in call.existing : files[call.config.assetsPath \o <<Slash>> \o q] = Partial
    /\ \E k \in 1..Len(tasks) : tasks[k].state = "done" /\ tasks[k].path \in DOMAIN files

\* C14: a run with skipExistingFiles that repeats, with the same arguments,
\* a run whose every download succeeded starts no download and leaves every
\* file as it is: what it still requests are descriptors the service has no
\* URL for
C14_RepeatedSkipRunWritesNothing ==
    [][(op' = "createAssets" /\ call'.config.skipExistingFiles /\ call'.again) =>
          /\ files' = files
          /\ tasks' = <<>>
          /\ \A k \in 1..Len(work') : ImageOf(work'[k].id) = NoUrl]_vars

\* the repeated run skipped three descriptors and resolved
C14_Witness ==
    /\ op = "createAssets" /\ call.config.skipExistingFiles /\ call.again
    /\ outcome = "resolved"
    /\ Cardinality(DOMAIN files) = 3
    /\ warned = <<[kind |-> "skipped", count |-> 3]>>

\* C15: when the export-URL requests of a run have succeeded, a descriptor
\* the service returned no URL for has no url, no download task, no file and
\* no directory of its own; the run does not fail; every other descriptor of
\* the run has its URL and a task
C15_NoUrlNoDownload ==
    (op = "createAssets" /\ pc # "images" /\ error = "none") =>
        /\ outcome # "rejected"
        /\ \A k \in 1..Len(work) :
               IF work[k].id \in remote.broken
               THEN /\ work[k].url = NoUrl
                    /\ work[k].id \notin TaskIds(tasks)
                    /\ PathOf(work[k], call.config) \notin DOMAIN files
                    /\ LET dir == Dirname(PathOf(work[k], call.config))
                       IN  (/\ dir \notin {<<>>, call.config.assetsPath}
                            /\ \A j \in 1..Len(assets) :
                                   assets[j].id # work[k].id =>
                                       Dirname(PathOf(assets[j], call.config)) # dir)
                               => dir \notin dirs
               ELSE /\ work[k].url = UrlOf(work[k].id)
                    /\ work[k].id \in TaskIds(tasks)

\* the component's variant got no URL; the other descriptor of its batch was
\* downloaded and the run resolved
C15_Witness ==
    /\ op = "createAssets" /\ outcome = "resolved" /\ error = "none"
    /\ Len(requests) = 1 /\ Len(work) = 2
    /\ work[1].id \in remote.broken /\ work[1].url = NoUrl
    /\ <<"out", Slash, "star">> \notin dirs
    /\ Len(tasks) = 1 /\ tasks[1].state = "done" /\ tasks[1].id = work[2].id

----------------------------------------------------------------------------
(* Properties of createAssets's arguments.                                 *)

\* the directories a path lies in
DirsAbove(q) == {SubSeq(q, 1, i - 1) : i \in {j \in 1..Len(q) : q[j] = Slash}}

\* C16: every download task of a call targets <assetsPath>/<name>.<format>,
\* assetsPath and format taken from that call's effective configuration and
\* name from the array the transform returned (the overriding transform's
\* name for the first descriptor, the stored name otherwise); a task that
\* completes leaves the downloaded bytes there, inside directories that
\* exist; and a call writes no other file
C16_WrittenToNamePathOfTheCall ==
    [][(op' = "createAssets") =>
          /\ \A k \in 1..Len(tasks') :
                 LET t == tasks'[k]
                     j == CHOOSE i \in 1..Len(assets) : assets[i].id = t.id
                 IN  /\ t.path = PathOf(t, call'.config)
                     /\ t.name = IF call'.transform = "override" /\ j = 1
                                 THEN CustomName ELSE assets[j].name
                     /\ t.state = "done" =>
                            /\ t.path \in DOMAIN files'
                            /\ files'[t.path] = t.url
                            /\ DirsAbove(t.path) \subseteq dirs'
          /\ \A q \in DOMAIN files' :
                 (q \notin DOMAIN files \/ files'[q] # files[q]) =>
                     \E k \in 1..Len(tasks') : tasks'[k].path = q]_vars

\* a call that overrides the first name and the format wrote custom_name.jpg;
\* an earlier call had written the component's variant into a subdirectory
C16_Witness ==
    /\ op = "createAssets" /\ outcome = "resolved"
    /\ call.transform = "override" /\ call.overrides = [format |-> "jpg"]
    /\ \E k \in 1..Len(tasks) :
           /\ tasks[k].state = "done"
           /\ tasks[k].path = <<"out", Slash, "custom_name", ".", "jpg">>
           /\ tasks[k].path \in DOMAIN files
           /\ tasks[k].name # assets[1].name
    /\ <<"out", Slash, "star">> \in dirs
    /\ \E q \in DOMAIN files : IsPrefix(<<"out", Slash, "star", Slash>>, q)

\* the icon export ran to its end: setAssets resolved descriptors, and
\* createAssets downloaded every one of them
IconRunComplete ==
    /\ op = "createAssets" /\ pc = "idle" /\ outcome = "resolved" /\ error = "none"
    /\ assets # <<>>
    /\ Len(tasks) = Len(assets)
    /\ \A k \in 1..Len(tasks) : tasks[k].state = "done"

\* C17 as claimed: the two files are icons/star.svg and icons/gear.svg
C17_IconsInSubdirectory ==
    IconRunComplete =>
        DOMAIN files = {<<"out", Slash, "icons", Slash, "star", ".", "svg">>,
                        <<"out", Slash, "icons", Slash, "gear", ".", "svg">>}

\* C17 as amended: with the frame "icons" configured and exportVariants
\* false, the icon nodes "star" and "gear" give exactly the two files
\* star.svg and gear.svg, directly under assetsPath
C17_IconsDirectlyUnderAssetsPath ==
    IconRunComplete =>
        /\ DOMAIN files = {<<"out", Slash, "star", ".", "svg">>,
                           <<"out", Slash, "gear", ".", "svg">>}
        /\ dirs = {<<>>, <<"out">>}

\* both icons were downloaded in one run
C17_Witness ==
    /\ IconRunComplete
    /\ Len(tasks) = 2
    /\ \A k \in 1..2 : files[tasks[k].path] = tasks[k].url

\* C18: a descriptor the transform leaves out of the array it returns is in
\* no export-URL request of the call and has no download task, by id or by path
C18_ExcludedDescriptorIsNotExported ==
    (op = "createAssets" /\ call.transform = "exclude") =>
        \A k \in 1..Len(assets) :
            Includes(assets[k].name, "gear") =>
                /\ \A r \in 1..Len(requests) : \A c \in 1..Len(requests[r]) :
                       requests[r][c] # assets[k].id
                /\ \A t \in 1..Len(tasks) :
                       /\ tasks[t].id # assets[k].id
                       /\ tasks[t].path # PathOf(assets[k], call.config)
                /\ assets[k].id \notin WorkIds(work)

\* of two descriptors the excluding call exported one, and no file of the
\* other exists
C18_Witness ==
    /\ op = "createAssets" /\ call.transform = "exclude" /\ outcome = "resolved"
    /\ Len(assets) = 2 /\ Includes(assets[2].name, "gear")
    /\ Len(requests) = 1 /\ requests[1] = <<assets[1].id>>
    /\ Len(tasks) = 1 /\ tasks[1].state = "done"
    /\ \A q \in DOMAIN files : ~Includes(q, "gear")

\* C19: no step changes this.config, and the configuration a createAssets
\* call works with is this.config shadowed key by key by that call's overrides
C19_OverridesApplyToOneCall ==
    [][/\ config' = config
       /\ (op' = "createAssets") =>
              /\ DOMAIN call'.config = DOMAIN config
              /\ \A key \in DOMAIN config :
                     call'.config[key] = IF key \in DOMAIN call'.overrides
                                         THEN call'.overrides[key]
                                         ELSE config[key]]_vars

\* a call without overrides wrote an svg file under assetsPath after a call
\* with overrides had written under the other directory
C19_Witness ==
    /\ op = "createAssets" /\ call.overrides = NoOverrides /\ call.config = config
    /\ \E k \in 1..Len(tasks) :
           /\ tasks[k].state = "done"
           /\ IsPrefix(AssetsPath \o <<Slash>>, tasks[k].path)
           /\ tasks[k].path[Len(tasks[k].path)] = DefaultFormat
    /\ \E q \in DOMAIN files : IsPrefix(OtherPath \o <<Slash>>, q)

\* C20: no step of a createAssets call changes this.assets: the descriptors
\* keep their order, ids and names, and carry no url
C20_CreateAssetsLeavesAssetsUnchanged ==
    [][(op' = "createAssets") =>
          /\ assets' = assets
          /\ \A k \in 1..Len(assets') : DOMAIN assets'[k] = {"id", "name"}]_vars

\* the transform renamed the first descriptor it received, the export gave
\* it a URL, and this.assets holds the stored name
C20_Witness ==
    /\ op = "createAssets" /\ call.transform = "override" /\ outcome = "resolved"
    /\ work # <<>> /\ work[1].name = CustomName /\ work[1].url # NoUrl
    /\ assets[1].id = work[1].id /\ assets[1].name # CustomName

----------------------------------------------------------------------------
(* Properties of the download tasks.                                       *)

\* C21: a descriptor the transform returned with an assetsPath of its own
\* has its download task, and so its file, under that assetsPath
C21_SavedUnderOwnAssetsPath ==
    (op = "createAssets") =>
        \A k \in 1..Len(tasks) : \A j \in 1..Len(work) :
            work[j].id = tasks[k].id =>
                IsPrefix(work[j].assetsPath \o <<Slash>>, tasks[k].path)

\* C22: no two tasks of a run that are writing have the same destination
\* path, whatever the transform
C22_NoTwoTasksWriteTheSameFile ==
    (op = "createAssets") =>
        \A j \in 1..Len(tasks) : \A k \in 1..Len(tasks) :
            (j # k /\ tasks[j].state = "writing" /\ tasks[k].state = "writing")
                => tasks[j].path # tasks[k].path

\* C23: when a run has completed, every task that failed, by its fetch or by
\* its write stream, has a warning naming its file
C23_EveryFailedTaskIsReported ==
    (op = "createAssets" /\ outcome = "resolved") =>
        \A k \in 1..Len(tasks) :
            tasks[k].state \in {"failed", "rejected"} =>
                \E w \in 1..Len(warned) :
                    warned[w].kind = "download" /\ warned[w].value = tasks[k].path

----------------------------------------------------------------------------
(* Properties of saveAsset (the earlier interface).                        *)

\* the extension of a path
Extension(q) == q[Len(q)]

\* C24: saveAsset writes to <assetsPath>/<name>.<format> and to no other
\* file, name being overrideConfig.name when one is given (and not empty)
\* and the asset's name otherwise; when it resolves the file holds the image
C24_SaveAssetWritesUnderFinalName ==
    [][(op' = "saveAsset") =>
          LET t     == tasks'[1]
              a     == work'[call'.asset]
              ov    == call'.overrides
              named == "name" \in DOMAIN ov /\ ov.name # <<>>
          IN  /\ t.path = call'.config.assetsPath \o <<Slash>>
                              \o (IF named THEN ov.name ELSE a.name)
                              \o <<".", a.format>>
              /\ \A q \in DOMAIN files' :
                     (q \notin DOMAIN files \/ files'[q] # files[q]) => q = t.path
              /\ outcome' = "resolved" =>
                     t.path \in DOMAIN files' /\ files'[t.path] = t.url]_vars

\* the star was saved as custom_name.jpg and no star.jpg exists
C24_Witness ==
    /\ op = "saveAsset" /\ outcome = "resolved"
    /\ call.overrides = [name |-> CustomName]
    /\ work[call.asset].name = <<"star">>
    /\ <<"out", Slash, "custom_name", ".", "jpg">> \in DOMAIN files
    /\ <<"out", Slash, "star", ".", "jpg">> \notin DOMAIN files

\* C25: the file saveAsset writes has overrideConfig.format as its extension
\* when one is given, and the exporter's configured format otherwise
C25_SaveAssetExtensionIsConfiguredFormat ==
    (op = "saveAsset") =>
        Extension(tasks[1].path) =
            IF "format" \in DOMAIN call.overrides
            THEN call.overrides.format ELSE config.format

----------------------------------------------------------------------------
(* Properties of the export step and of single downloads.                  *)

\* the responses, successful or not, the run's export-URL requests have had
ResponsesReceived ==
    (idx \div call.config.batchSize) + (IF error = "http" THEN 1 ELSE 0)

\* C26: an export-URL request is outstanding exactly while the run waits in
\* the batch loop, and it is the only one: every earlier request has been
\* answered and its chunk's descriptors carry their URLs, and no descriptor
\* of the outstanding chunk or a later one has a URL
C26_OneExportRequestAtATime ==
    (op = "createAssets") =>
        /\ Len(requests) - ResponsesReceived = (IF pc = "images" THEN 1 ELSE 0)
        /\ pc = "images" =>
               /\ idx < Len(work)
               /\ \A k \in 1..Len(work) :
                      work[k].url = IF k <= idx /\ work[k].id \notin remote.broken
                                    THEN UrlOf(work[k].id) ELSE NoUrl

\* the second request is out; the first chunk has its URL, the rest none
C26_Witness ==
    /\ op = "createAssets" /\ pc = "images"
    /\ Len(requests) = 2 /\ Len(work) = 3
    /\ work[1].url # NoUrl /\ work[2].url = NoUrl /\ work[3].url = NoUrl

\* C27: when the request for chunk k has failed, the run waits for nothing,
\* no descriptor after chunk k is in any request, the descriptors before
\* chunk k have the URLs they were given and those from chunk k on have none
C27_FailureAtChunkKeepsEarlierUrls ==
    ExportFailed =>
        LET k == Len(requests)
            b == call.config.batchSize
        IN  /\ pc = "idle"
            /\ idx = (k - 1) * b
            /\ \A j \in 1..Len(work) :
                   /\ work[j].url = IF j <= (k - 1) * b /\ work[j].id \notin remote.broken
                                     THEN UrlOf(work[j].id) ELSE NoUrl
                   /\ j > k * b =>
                          \A r \in 1..Len(requests) : \A c \in 1..Len(requests[r]) :
                              requests[r][c] # work[j].id

\* the second of three chunks failed: the third was never requested
C27_Witness ==
    /\ ExportFailed /\ pc = "idle"
    /\ Len(work) = 3 /\ call.config.batchSize = 1 /\ Len(requests) = 2
    /\ work[1].url = UrlOf(work[1].id) /\ work[2].url = NoUrl /\ work[3].url = NoUrl

\* the descriptors whose chunk has been answered
AnsweredChunks == 1..Min(idx, Len(work))

\* C28 as claimed: after a chunk's response every descriptor of the chunk
\* carries the URL returned for its id and a format field equal to the
\* requested format
C28_UrlAndFormatWritten ==
    (op = "createAssets" /\ error # "enoent") =>
        \A k \in AnsweredChunks :
            /\ work[k].url = IF work[k].id \in remote.broken
                              THEN NoUrl ELSE UrlOf(work[k].id)
            /\ "format" \in DOMAIN work[k]
            /\ work[k].format = call.config.format

\* C28 as amended: after a chunk's response every descriptor of the chunk
\* carries the URL returned for its id and nothing else new: a descriptor
\* has no format field, and the files take their extension from the call's
\* configuration
C28_UrlWrittenWithoutFormat ==
    (op = "createAssets" /\ error # "enoent") =>
        /\ \A k \in AnsweredChunks :
               /\ work[k].url = IF work[k].id \in remote.broken
                                 THEN NoUrl ELSE UrlOf(work[k].id)
               /\ DOMAIN work[k] = {"id", "name", "assetsPath", "url"}
        /\ \A t \in 1..Len(tasks) : Extension(tasks[t].path) = call.config.format

\* a chunk of two was answered while a later chunk waits
C28_Witness ==
    /\ op = "createAssets" /\ pc = "images"
    /\ call.config.batchSize = 2 /\ idx = 2 /\ Len(work) = 3
    /\ work[1].url = UrlOf(work[1].id) /\ work[2].url = UrlOf(work[2].id)

\* C29: the step in which a task's fetch is answered with a non-success
\* status changes no file: none is created at the task's path and one
\* already there keeps its content
C29_FailedFetchWritesNothing ==
    [][\A k \in 1..Len(tasks) :
          (/\ Len(tasks') = Len(tasks)
           /\ tasks[k].state = "fetching" /\ tasks'[k].state = "failed")
              => files' = files]_vars

\* a task's fetch failed over a file an earlier run had written
C29_Witness ==
    /\ op = "createAssets"
    /\ \E k \in 1..Len(tasks) :
           /\ tasks[k].state = "failed"
           /\ tasks[k].path \in DOMAIN files
           /\ files[tasks[k].path] = tasks[k].url
    /\ \E k \in 1..Len(tasks) :
           tasks[k].state = "failed" /\ tasks[k].path \notin DOMAIN files

\* C30: while a task of a run is writing, the run has not resolved and the
\* task holds its slot (the tasks fetching or writing are at most
\* concurrencyLimit, and exactly that many while one is queued); and the
\* step in which a write stream emits error rejects that task only: no
\* other task fails with it, the run does not reject, and the limiter goes on
C30_WritingTaskIsNotSettled ==
    [][(op' = "createAssets") =>
          LET busy == {k \in 1..Len(tasks') : tasks'[k].state \in {"fetching", "writing"}}
          IN  /\ (\E k \in 1..Len(tasks') : tasks'[k].state = "writing") =>
                     /\ outcome' = "pending"
                     /\ pc' = "saving"
              /\ Cardinality(busy) <= call'.config.concurrencyLimit
              /\ (\E k \in 1..Len(tasks') : tasks'[k].state = "queued") =>
                     Cardinality(busy) = call'.config.concurrencyLimit
              /\ \A k \in 1..Len(tasks) :
                     (/\ Len(tasks') = Len(tasks)
                      /\ tasks[k].state = "writing" /\ tasks'[k].state = "rejected") =>
                         /\ outcome' # "rejected"
                         /\ error' = error
                         /\ \A j \in 1..Len(tasks) :
                                j # k =>
                                    \/ tasks'[j].state = tasks[j].state
                                    \/ /\ tasks[j].state = "queued"
                                       /\ tasks'[j].state = "fetching"]_vars

\* under a limit of one, a write error on the first task let the second run
\* and the third wait; the run is pending
C30_Witness ==
    /\ op = "createAssets" /\ call.config.concurrencyLimit = 1
    /\ Len(tasks) = 3
    /\ tasks[1].state = "rejected"
    /\ tasks[2].state = "writing"
    /\ tasks[3].state = "queued"
    /\ outcome = "pending"

----------------------------------------------------------------------------
(* Properties of the resolution's order, warnings and storage.             *)

\* document order on ids: p is above q, or left of it
Before(p, q) ==
    \E n \in 1..Len(q) :
        /\ \A m \in 1..(n - 1) : m <= Len(p) /\ p[m] = q[m]
        /\ n > Len(p) \/ p[n] < q[n]

InDocumentOrder(arr) ==
    \A i, j \in 1..Len(arr) : i < j => Before(arr[i].id, arr[j].id)

\* C31: a setAssets call that resolves emits and stores its descriptors in
\* document order (an earlier top-level node's before a later one's, the
\* variants of a node in child order), and on the same tree and inputs it
\* stores the sequence the call before it stored
C31_DeterministicDocumentOrder ==
    [][(op' = "setAssets" /\ pc = "document" /\ outcome' = "resolved") =>
          /\ InDocumentOrder(emitted')
          /\ InDocumentOrder(assets')
          /\ assets # <<>> => assets' = assets]_vars

\* a variant of the first node, then the plain node after it
C31_Witness ==
    /\ SetAssetsResolved
    /\ Len(WorkingSet) = 2
    /\ Len(assets) = 2
    /\ Len(assets[1].id) > Len(assets[2].id)

\* C32: a setAssets call that resolves has warned once for each descriptor
\* it dropped (emitted minus stored), and not at all when the emitted names
\* are distinct
C32_OneWarningPerDroppedDescriptor ==
    SetAssetsResolved =>
        /\ Len(warned) = Len(emitted) - Len(assets)
        /\ \A k \in 1..Len(warned) : warned[k].kind = "duplicate"
        /\ (\A i, j \in 1..Len(emitted) : i # j => emitted[i].name # emitted[j].name)
               => warned = <<>>

\* three descriptors of one name: two dropped, two warnings
C32_Witness ==
    /\ SetAssetsResolved
    /\ Len(emitted) = 3
    /\ Len(assets) = 1
    /\ Len(warned) = 2

\* the list setAssets stores for the tree the service holds
StoredFor(doc, cfg) ==
    LET page == doc.children[CHOOSE k \in 1..Len(doc.children) :
                                 doc.children[k].name = cfg.page]
        ws   == IF cfg.frame = NoFrame THEN page.children
                ELSE page.children[CHOOSE k \in 1..Len(page.children) :
                                       page.children[k].name = cfg.frame].children
    IN  FindDuplicates(Emit(ws, cfg.exportVariants)).kept

\* C33: a setAssets call first requests the document and changes nothing of
\* the list; the list changes only in the step that receives the document,
\* which ends the call; and a call that resolves leaves in the list exactly
\* the descriptors of the tree it fetched, whatever the list held before
C33_FetchedAnewAndReplaced ==
    [][/\ (pc = "idle" /\ op' = "setAssets" /\ pc' # "idle") =>
              (pc' = "document" /\ assets' = assets /\ emitted' = <<>>)
       /\ (assets' # assets \/ (emitted' # emitted /\ emitted' # <<>>)) =>
              (pc = "document" /\ pc' = "idle")
       /\ (pc = "document" /\ outcome' = "resolved") =>
              assets' = StoredFor(remote.document, config)]_vars

\* the file was edited after a resolution, and a later call stored the one
\* descriptor of the edited tree in place of the two stored before
C33_Witness ==
    /\ SetAssetsResolved
    /\ remote.document # Doc(PageName, config.frame, StartSet)
    /\ Len(assets) = 1
    /\ assets = StoredFor(remote.document, config)

\* C34: a setAssets call that fails, on the document request or on a lookup,
\* leaves the resolved asset list as it was
C34_FailedSetAssetsKeepsList ==
    [][(op' = "setAssets" /\ pc = "document" /\ outcome' = "rejected") =>
          assets' = assets]_vars

\* a list of two was resolved, the frame was then renamed, and the next call
\* failed on the frame lookup with the two descriptors still stored
C34_Witness ==
    /\ op = "setAssets" /\ pc = "idle" /\ outcome = "rejected"
    /\ error = "frame"
    /\ Len(assets) = 2

----------------------------------------------------------------------------
(* Properties of the skip filter's place in a run.                         *)

\* C35: a createAssets call with skipExistingFiles that finds no file under
\* the destination root, the root itself being absent included, does not
\* fail, drops no descriptor, and once its export-URL requests have
\* succeeded has a download task for every descriptor that has a URL
C35_SkipWithNothingPresentCompletes ==
    (op = "createAssets" /\ call.config.skipExistingFiles /\ call.existing = {}) =>
        /\ outcome # "rejected"
        /\ error # "enoent"
        /\ WorkIds(work) = WorkIds(assets)
        /\ (pc # "images" /\ error = "none") =>
               \A k \in 1..Len(work) : work[k].url # NoUrl => work[k].id \in TaskIds(tasks)

\* the ids of the descriptors the call dropped: their file was there when
\* the call was made
Dropped ==
    {assets[k].id : k \in {j \in 1..Len(assets) :
        Normalize(FileName(assets[j].name, call.config.format)) \in call.existing}}

\* C36: in a run with skipExistingFiles no export-URL request and no
\* download task carries the id of a dropped descriptor, and a run that
\* dropped every descriptor has issued no request and started no download
C36_DroppedIdsAreNeverRequested ==
    (op = "createAssets" /\ call.config.skipExistingFiles) =>
        /\ \A r \in 1..Len(requests) : \A m \in 1..Len(requests[r]) :
               requests[r][m] \notin Dropped
        /\ TaskIds(tasks) \cap Dropped = {}
        /\ Dropped = WorkIds(assets) => (requests = <<>> /\ tasks = <<>>)

\* one descriptor was dropped and the two others were requested one by one
\* and downloaded
C36_Witness ==
    /\ op = "createAssets" /\ call.config.skipExistingFiles /\ outcome = "resolved"
    /\ Cardinality(Dropped) = 1
    /\ Len(requests) = 2
    /\ Len(tasks) = 2
    /\ \A k \in 1..Len(tasks) : tasks[k].state = "done"

----------------------------------------------------------------------------
(* Properties of the export loop's progress.                               *)

\* C37: the export step makes progress with every request, whatever the
\* batchSize: a run never issues more export-URL requests than it has
\* descriptors (none for an empty list), and while a request is in flight
\* the loop index is below the length of the list
C37_ExportStepTerminates ==
    op = "createAssets" =>
        /\ Len(requests) <= Len(work)
        /\ pc = "images" => idx < Len(work)

----------------------------------------------------------------------------
(* Progress of the save step.                                              *)

AllSettled == \A k \in 1..Len(tasks) : Settled(tasks[k])

\* C38: with every download answered and every write stream ended in the
\* end, a task that waits is started, a task that runs settles, and a run in
\* its save step returns resolved with every task settled and none in flight
C38_EveryTaskSettlesAndRunReturns ==
    /\ \A k \in 1..Len(LiveSet) :
           (pc = "saving" /\ k <= Len(tasks) /\ tasks[k].state = "queued")
               ~> (k <= Len(tasks) /\ InFlight(tasks[k]))
    /\ \A k \in 1..Len(LiveSet) :
           (pc = "saving" /\ k <= Len(tasks) /\ InFlight(tasks[k]))
               ~> (k <= Len(tasks) /\ Settled(tasks[k]))
    /\ (op = "createAssets" /\ pc = "saving")
           ~> (/\ op = "createAssets" /\ pc = "idle" /\ outcome = "resolved"
               /\ AllSettled /\ Active(tasks) = 0)

\* three tasks went through one slot and ended in the three ways a task can
\* end; the run has returned
C38_Witness ==
    /\ op = "createAssets" /\ pc = "idle" /\ outcome = "resolved"
    /\ call.config.concurrencyLimit = 1
    /\ Len(tasks) = 3
    /\ tasks[1].state = "rejected"
    /\ tasks[2].state = "failed"
    /\ tasks[3].state = "done"
    /\ Active(tasks) = 0

----------------------------------------------------------------------------
(* createAssets on an exporter that holds no descriptor.                   *)

\* C40: a createAssets call made while the asset list is the constructor's
\* empty list issues no export-URL request, starts no download, writes no
\* file, and resolves
C40_EmptyListRunResolves ==
    [][(pc = "idle" /\ assets = <<>> /\ op' = "createAssets") =>
          /\ requests' = <<>>
          /\ tasks' = <<>>
          /\ files' = files
          /\ pc' = "idle"
          /\ outcome' = "resolved"]_vars

====
